---------------------------- MODULE Spec2Model ----------------------------
(***************************************************************************)
(* easy-script: the console.log interpreter of src/main.go.                *)
(*                                                                         *)
(* Text is a sequence of one-character strings.  Lex, Parse and the        *)
(* Execute methods are operators computed as the Go code computes them;    *)
(* main is a state machine whose steps are the statements of func main.    *)
(* A Go run-time panic is the state pc = "panic" with its message in       *)
(* fault.  Go indexes from 0 and TLA+ from 1: the string helpers keep      *)
(* Go's 0-based results (-1 for "absent") and Slice(s, lo, hi) is s[lo:hi];*)
(* the token cursor of Parse is 1-based (Go's i plus one).                 *)
(***************************************************************************)
EXTENDS Integers, Sequences, FiniteSets, TLC

(***************************************************************************)
(* Bounds of the model.                                                    *)
(***************************************************************************)
\* statements per program (Spec)
MaxStmts == 2
\* arguments per console.log call (SpecCall)
MaxArgs == 3
\* characters of the single argument enumerated over ArgAlphabet (SpecArg)
MaxArgLen == 4
\* largest operand magnitude of an arithmetic pair (SpecArith)
MaxOperand == 12
\* Width of Go's int and of the significand of float64: 64 (or 32) and 53
\* bits in a build.  TLC's integers are 32-bit, so the model keeps the
\* two's-complement arithmetic, the range clamp of strconv.Atoi and the
\* rounding of float64 at widths TLC can compute.
IntBits == 12
MantissaBits == 9

MaxInt == 2 ^ (IntBits - 1) - 1
MinInt == -(2 ^ (IntBits - 1))

(***************************************************************************)
(* Token kinds (src/main.go:12-23).                                        *)
(***************************************************************************)
TokenConsole == "CONSOLE"
TokenLog == "LOG"
TokenString == "STRING"
TokenInt == "INT"
TokenPlus == "PLUS"
TokenMinus == "MINUS"
TokenMultiply == "MULTIPLY"
TokenDivide == "DIVIDE"
TokenModulo == "MODULO"
TokenPower == "POWER"

Token(type, literal) == [Type |-> type, Literal |-> literal]

(***************************************************************************)
(* The package strings, as far as Lex uses it.                             *)
(***************************************************************************)
\* unicode.IsSpace on the characters the model's texts can hold
IsSpace(c) == c \in {" ", "\t", "\n", "\r"}

RECURSIVE TrimLeft(_)
TrimLeft(s) == IF s # <<>> /\ IsSpace(Head(s)) THEN TrimLeft(Tail(s)) ELSE s

RECURSIVE TrimRight(_)
TrimRight(s) ==
    IF s # <<>> /\ IsSpace(s[Len(s)]) THEN TrimRight(SubSeq(s, 1, Len(s) - 1)) ELSE s

TrimSpace(s) == TrimRight(TrimLeft(s))

\* s[lo:hi], legal when 0 <= lo <= hi <= len(s)
SliceOK(s, lo, hi) == 0 <= lo /\ lo <= hi /\ hi <= Len(s)
Slice(s, lo, hi) == SubSeq(s, lo + 1, hi)

\* IndexAny gone wrong: the index of the last such character
LastIndexAny(s, chars) ==
    IF \E i \in 1..Len(s) : s[i] \in chars
    THEN (CHOOSE i \in 1..Len(s) :
              s[i] \in chars /\ \A j \in (i + 1)..Len(s) : s[j] \notin chars) - 1
    ELSE -1

\* strings.IndexAny: 0-based index of the first character of s in chars, or -1
IndexAny(s, chars) ==
    IF \E i \in 1..Len(s) : s[i] \in chars
    THEN (CHOOSE i \in 1..Len(s) :
              s[i] \in chars /\ \A j \in 1..(i - 1) : s[j] \notin chars) - 1
    ELSE -1

ContainsAny(s, chars) == IndexAny(s, chars) >= 0

Index(s, c) == IndexAny(s, {c})

\* strings.LastIndex: 0-based index of the last occurrence of c, or -1
LastIndex(s, c) ==
    IF \E i \in 1..Len(s) : s[i] = c
    THEN (CHOOSE i \in 1..Len(s) :
              s[i] = c /\ \A j \in (i + 1)..Len(s) : s[j] # c) - 1
    ELSE -1

HasPrefix(s, c) == s # <<>> /\ s[1] = c
HasSuffix(s, c) == s # <<>> /\ s[Len(s)] = c

\* Split gone wrong: the empty pieces dropped, none left of an empty text
RECURSIVE SplitNonEmpty(_, _)
SplitNonEmpty(s, sep) ==
    IF s = <<>> THEN <<>>
    ELSE IF s[1] = sep THEN SplitNonEmpty(Tail(s), sep)
    ELSE IF \E i \in 1..Len(s) : s[i] = sep
    THEN LET i == CHOOSE i \in 1..Len(s) : s[i] = sep /\ \A j \in 1..(i - 1) : s[j] # sep
         IN  <<SubSeq(s, 1, i - 1)>> \o SplitNonEmpty(SubSeq(s, i + 1, Len(s)), sep)
    ELSE <<s>>

\* strings.Split(s, sep) for a one-character sep: always at least one piece
RECURSIVE Split(_, _)
Split(s, sep) ==
    LET i == Index(s, sep)
    IN  IF i = -1 THEN <<s>>
        ELSE <<Slice(s, 0, i)>> \o Split(Slice(s, i + 1, Len(s)), sep)

\* strings.FieldsFunc(s, f), f true on the characters of seps: no empty field
RECURSIVE FieldsFunc(_, _)
FieldsFunc(s, seps) ==
    IF s = <<>> THEN <<>>
    ELSE IF Head(s) \in seps THEN FieldsFunc(Tail(s), seps)
    ELSE LET i == IndexAny(s, seps)
         IN  IF i = -1 THEN <<s>>
             ELSE <<Slice(s, 0, i)>> \o FieldsFunc(Slice(s, i + 1, Len(s)), seps)

(***************************************************************************)
(* Lex (src/main.go:150-208).                                              *)
(***************************************************************************)
Console == <<"c", "o", "n", "s", "o", "l", "e">>
Log == <<"l", "o", "g">>
OperatorChars == {"+", "-", "*", "%", "/", "^"}
SliceFault == "slice bounds out of range"

\* the switch on the operator character
OperatorToken(c) ==
    CASE c = "+" -> TokenPlus
      [] c = "-" -> TokenMinus
      [] c = "*" -> TokenMultiply
      [] c = "/" -> TokenDivide
      [] c = "%" -> TokenModulo
      [] c = "^" -> TokenPower

\* the words before "(": console and log are kept, every other word dropped
RECURSIVE LexWords(_)
LexWords(words) ==
    IF words = <<>> THEN <<>>
    ELSE LET word == Head(words)
             tok == IF word = Console THEN <<Token(TokenConsole, word)>>
                    ELSE IF word = Log THEN <<Token(TokenLog, word)>>
                    ELSE <<>>
         IN  tok \o LexWords(Tail(words))

\* one argument: the body of the loop over arguments
LexArg(raw) ==
    LET arg == TrimSpace(raw)
    IN  IF HasPrefix(arg, "\"") /\ HasSuffix(arg, "\"")
        THEN IF SliceOK(arg, 1, Len(arg) - 1)
             THEN [fault |-> "",
                   tokens |-> <<Token(TokenString, Slice(arg, 1, Len(arg) - 1))>>]
             ELSE [fault |-> SliceFault, tokens |-> <<>>]
        ELSE IF ContainsAny(arg, OperatorChars)
        THEN LET operatorIndex == IndexAny(arg, OperatorChars)
                 num1 == TrimSpace(Slice(arg, 0, operatorIndex))
                 operator == arg[operatorIndex + 1]
                 num2 == TrimSpace(Slice(arg, operatorIndex + 1, Len(arg)))
             IN  [fault |-> "",
                  tokens |-> <<Token(TokenInt, num1),
                               Token(OperatorToken(operator), <<operator>>),
                               Token(TokenInt, num2)>>]
        ELSE [fault |-> "", tokens |-> <<Token(TokenInt, arg)>>]

RECURSIVE LexArgs(_)
LexArgs(arguments) ==
    IF arguments = <<>> THEN [fault |-> "", tokens |-> <<>>]
    ELSE LET first == LexArg(Head(arguments))
             rest == LexArgs(Tail(arguments))
         IN  IF first.fault # "" THEN first
             ELSE IF rest.fault # "" THEN rest
             ELSE [fault |-> "", tokens |-> first.tokens \o rest.tokens]

\* one trimmed, non-empty statement: the body of the loop over statements
LexStmt(stmt) ==
    LET startIndex == Index(stmt, "(")
        endIndex == LastIndex(stmt, ")")
    IN  IF ~SliceOK(stmt, 0, startIndex) \/ ~SliceOK(stmt, startIndex + 1, endIndex)
        THEN [fault |-> SliceFault, tokens |-> <<>>]
        ELSE LET consoleLog == FieldsFunc(Slice(stmt, 0, startIndex), {" ", "."})
                 arguments == Split(Slice(stmt, startIndex + 1, endIndex), ",")
                 args == LexArgs(arguments)
             IN  IF args.fault # "" THEN args
                 ELSE [fault |-> "", tokens |-> LexWords(consoleLog) \o args.tokens]

RECURSIVE LexStmts(_)
LexStmts(statements) ==
    IF statements = <<>> THEN [fault |-> "", tokens |-> <<>>]
    ELSE LET stmt == TrimSpace(Head(statements))
             first == IF stmt = <<>> THEN [fault |-> "", tokens |-> <<>>]
                      ELSE LexStmt(stmt)
             rest == LexStmts(Tail(statements))
         IN  IF first.fault # "" THEN first
             ELSE IF rest.fault # "" THEN rest
             ELSE [fault |-> "", tokens |-> first.tokens \o rest.tokens]

\* [fault |-> "", tokens |-> the result], or the panic Lex ends with
Lex(input) == LexStmts(Split(input, ";"))

(***************************************************************************)
(* The nodes (src/main.go:31-147) and Parse (src/main.go:211-254).         *)
(***************************************************************************)
ConsoleLogNode(arguments) == [node |-> "ConsoleLogNode", Arguments |-> arguments]
StringNode(value) == [node |-> "StringNode", Value |-> value]
IntNode(value) == [node |-> "IntNode", Value |-> value]
BinaryNode(kind, left, right) == [node |-> kind, Left |-> left, Right |-> right]

InvalidSyntax == "Invalid syntax"
IndexFault == "index out of range"

\* the switch on tokens[i+1].Type: the node kind of an operator token
OperatorNode(type) ==
    CASE type = TokenPlus -> "PlusNode"
      [] type = TokenMinus -> "MinusNode"
      [] type = TokenMultiply -> "MultiplyNode"
      [] type = TokenDivide -> "DivideNode"
      [] type = TokenModulo -> "ModuloNode"
      [] type = TokenPower -> "PowerNode"
      [] OTHER -> ""

\* the inner loop: the arguments from cursor i up to the next Console token
\* or the end; [i |-> the cursor it stops at, args |-> the nodes collected]
RECURSIVE ParseArgs(_, _, _)
ParseArgs(tokens, i, args) ==
    IF i <= Len(tokens) /\ tokens[i].Type # TokenConsole
    THEN IF tokens[i].Type = TokenString
         THEN ParseArgs(tokens, i + 1, Append(args, StringNode(tokens[i].Literal)))
         ELSE IF tokens[i].Type = TokenInt
         THEN IF i + 2 <= Len(tokens) /\ tokens[i + 2].Type = TokenInt
              THEN LET kind == OperatorNode(tokens[i + 1].Type)
                       node == BinaryNode(kind, IntNode(tokens[i].Literal),
                                          IntNode(tokens[i + 2].Literal))
                   IN  ParseArgs(tokens, i + 3,
                                 IF kind # "" THEN Append(args, node) ELSE args)
              ELSE ParseArgs(tokens, i + 1, Append(args, IntNode(tokens[i].Literal)))
         ELSE ParseArgs(tokens, i + 1, args)
    ELSE [i |-> i, args |-> args]

\* the outer loop from cursor i
RECURSIVE ParseFrom(_, _, _)
ParseFrom(tokens, i, nodes) ==
    IF i > Len(tokens) THEN [fault |-> "", nodes |-> nodes]
    ELSE IF tokens[i].Type # TokenConsole THEN [fault |-> InvalidSyntax, nodes |-> <<>>]
    ELSE IF i + 1 > Len(tokens) THEN [fault |-> IndexFault, nodes |-> <<>>]
    ELSE IF tokens[i + 1].Type # TokenLog THEN [fault |-> InvalidSyntax, nodes |-> <<>>]
    ELSE LET r == ParseArgs(tokens, i + 2, <<>>)
         IN  ParseFrom(tokens, r.i, Append(nodes, ConsoleLogNode(r.args)))

\* [fault |-> "", nodes |-> the result], or the panic Parse ends with
Parse(tokens) == ParseFrom(tokens, 1, <<>>)

(***************************************************************************)
(* strconv.Atoi and strconv.Itoa, as the Execute methods use them: the     *)
(* error of Atoi is discarded, its value kept.                             *)
(***************************************************************************)
Digits == <<"0", "1", "2", "3", "4", "5", "6", "7", "8", "9">>
IsDigit(c) == \E d \in 1..10 : Digits[d] = c
DigitValue(c) == (CHOOSE d \in 1..10 : Digits[d] = c) - 1

\* the value of a digit string, kept below 10 * (MaxInt + 2) once it has
\* left the int range
RECURSIVE Magnitude(_, _)
Magnitude(digits, acc) ==
    IF digits = <<>> THEN acc
    ELSE Magnitude(Tail(digits),
                   IF acc > MaxInt + 1 THEN acc ELSE acc * 10 + DigitValue(Head(digits)))

\* Atoi gone wrong: 0 with a range error too
AtoiZeroOnError(s) ==
    LET signed == s # <<>> /\ s[1] \in {"+", "-"}
        neg == s # <<>> /\ s[1] = "-"
        digits == IF signed THEN Tail(s) ELSE s
    IN  IF digits = <<>> \/ \E i \in 1..Len(digits) : ~IsDigit(digits[i]) THEN 0
        ELSE LET m == Magnitude(digits, 0)
             IN  IF neg THEN (IF m > -MinInt THEN 0 ELSE -m)
                 ELSE (IF m > MaxInt THEN 0 ELSE m)

\* the int Atoi returns: 0 with a syntax error, the nearest end of the int
\* range with a range error, the value otherwise
Atoi(s) ==
    LET signed == s # <<>> /\ s[1] \in {"+", "-"}
        neg == s # <<>> /\ s[1] = "-"
        digits == IF signed THEN Tail(s) ELSE s
    IN  IF digits = <<>> \/ \E i \in 1..Len(digits) : ~IsDigit(digits[i]) THEN 0
        ELSE LET m == Magnitude(digits, 0)
             IN  IF neg THEN (IF m > -MinInt THEN MinInt ELSE -m)
                 ELSE (IF m > MaxInt THEN MaxInt ELSE m)

RECURSIVE FormatDigits(_)
FormatDigits(n) ==
    IF n < 10 THEN <<Digits[n + 1]>>
    ELSE Append(FormatDigits(n \div 10), Digits[(n % 10) + 1])

Itoa(n) == IF n < 0 THEN <<"-">> \o FormatDigits(-n) ELSE FormatDigits(n)

(***************************************************************************)
(* Go's int arithmetic.                                                    *)
(***************************************************************************)
\* two's-complement wrap-around of + - *
Wrap(x) == ((x - MinInt) % (2 ^ IntBits)) + MinInt
Abs(x) == IF x < 0 THEN -x ELSE x
\* Quo gone wrong: the quotient rounded down
QuoFloor(x, y) == Wrap(IF y < 0 THEN (-x) \div (-y) ELSE x \div y)

\* x / y and x % y for y # 0: the quotient truncated toward zero
Quo(x, y) ==
    LET q == Abs(x) \div Abs(y) IN Wrap(IF (x < 0) # (y < 0) THEN -q ELSE q)
Rem(x, y) ==
    LET r == Abs(x) % Abs(y) IN IF x < 0 THEN -r ELSE r

\* float64(x) for an int x: the nearest value with MantissaBits significant
\* bits, ties to even
BitLength(m) == CHOOSE n \in 0..(IntBits + 1) : m < 2 ^ n /\ (n = 0 \/ 2 ^ (n - 1) <= m)
RoundMagnitude(m) ==
    IF BitLength(m) <= MantissaBits THEN m
    ELSE LET unit == 2 ^ (BitLength(m) - MantissaBits)
             q == m \div unit
             r == m % unit
         IN  IF 2 * r > unit \/ (2 * r = unit /\ q % 2 = 1) THEN (q + 1) * unit
             ELSE q * unit
Float(x) == IF x < 0 THEN -RoundMagnitude(-x) ELSE RoundMagnitude(x)

\* |x|^y for y >= 0 from acc = 1 on; MaxInt + 2 stands for every value
\* above MaxInt + 1
RECURSIVE PowMagnitude(_, _, _)
PowMagnitude(x, y, acc) ==
    IF y = 0 THEN acc
    ELSE IF Abs(x) <= 1 THEN Abs(x)
    ELSE IF Abs(x) > (MaxInt + 1) \div acc THEN MaxInt + 2
    ELSE PowMagnitude(x, y - 1, acc * Abs(x))

\* int(f) for a float64 f outside the int range (+Inf included) is
\* implementation-dependent: amd64 yields the most negative int, arm64
\* saturates.
Architectures == {"amd64", "arm64"}
OutOfRange(arch, negative) ==
    IF arch = "amd64" \/ negative THEN MinInt ELSE MaxInt

\* int(math.Pow(float64(x), float64(y))).  math.Pow is exact whenever the
\* power is a float64; otherwise it returns a float64 near it, taken here
\* to be the nearest.
PowInt(arch, x, y) ==
    LET fx == Float(x)
        fy == Float(y)
    IN  IF fy >= 0
        THEN LET m == PowMagnitude(fx, fy, 1)
                 negative == fx < 0 /\ fy % 2 = 1
                 f == IF m > MaxInt + 1 THEN m ELSE RoundMagnitude(m)
                 v == IF negative THEN -f ELSE f
             IN  IF v < MinInt \/ v > MaxInt THEN OutOfRange(arch, negative) ELSE v
        ELSE IF fx = 0 THEN OutOfRange(arch, FALSE)
        ELSE IF fx = 1 THEN 1
        ELSE IF fx = -1 THEN (IF fy % 2 = 0 THEN 1 ELSE -1)
        ELSE 0

(***************************************************************************)
(* The Execute methods (src/main.go:42-147).                               *)
(***************************************************************************)
DivideFault == "integer divide by zero"

\* the six binary nodes on the texts their IntNode operands execute to
ExecuteBinary(arch, kind, leftText, rightText) ==
    LET left == Atoi(leftText)
        right == Atoi(rightText)
    IN  IF kind \in {"DivideNode", "ModuloNode"} /\ right = 0
        THEN [fault |-> DivideFault, text |-> <<>>]
        ELSE [fault |-> "",
              text |-> Itoa(CASE kind = "PlusNode" -> Wrap(left + right)
                              [] kind = "MinusNode" -> Wrap(left - right)
                              [] kind = "MultiplyNode" -> Wrap(left * right)
                              [] kind = "DivideNode" -> Quo(left, right)
                              [] kind = "ModuloNode" -> Rem(left, right)
                              [] kind = "PowerNode" -> PowInt(arch, left, right))]

\* an argument node of a ConsoleLogNode
ExecuteArgument(arch, n) ==
    IF n.node \in {"StringNode", "IntNode"} THEN [fault |-> "", text |-> n.Value]
    ELSE ExecuteBinary(arch, n.node, n.Left.Value, n.Right.Value)

\* strings.Join(args, " ") over the executed arguments, or the first panic
RECURSIVE ExecuteArguments(_, _)
ExecuteArguments(arch, arguments) ==
    IF arguments = <<>> THEN [fault |-> "", text |-> <<>>]
    ELSE LET first == ExecuteArgument(arch, Head(arguments))
             rest == ExecuteArguments(arch, Tail(arguments))
         IN  IF first.fault # "" THEN first
             ELSE IF rest.fault # "" THEN rest
             ELSE [fault |-> "",
                   text |-> IF Tail(arguments) = <<>> THEN first.text
                            ELSE first.text \o <<" ">> \o rest.text]

\* ConsoleLogNode.Execute
Execute(arch, n) == ExecuteArguments(arch, n.Arguments)

(***************************************************************************)
(* The inputs: the text main reads from the file (src/main.go:270).        *)
(***************************************************************************)
ConsoleLogOpen == <<"c", "o", "n", "s", "o", "l", "e", ".", "l", "o", "g", "(">>

\* Spec: programs of 1..MaxStmts statements, each followed by ";", a space
\* between statements
StmtOne == <<"c", "o", "n", "s", "o", "l", "e", ".", "l", "o", "g", "(", "1", ")">>
StmtSum == <<"c", "o", "n", "s", "o", "l", "e", ".", "l", "o", "g", "(", "1", "+", "1", ")">>
StmtMixed == <<"c", "o", "n", "s", "o", "l", "e", ".", "l", "o", "g", "(", "\"", "s", "u", "m", ":", "\"", ",", " ", "2", "+", "3", ")">>
StmtThree == <<"c", "o", "n", "s", "o", "l", "e", ".", "l", "o", "g", "(", "1", ",", "2", ",", "3", ")">>
StmtDivZero == <<"c", "o", "n", "s", "o", "l", "e", ".", "l", "o", "g", "(", "5", "/", "0", ")">>
StmtModZero == <<"c", "o", "n", "s", "o", "l", "e", ".", "l", "o", "g", "(", "7", "%", "0", ")">>
StmtPrint == <<"p", "r", "i", "n", "t", "(", "2", ")">>
StmtLog == <<"l", "o", "g", "(", "2", ")">>
StmtConsole == <<"c", "o", "n", "s", "o", "l", "e", "(", "2", ")">>
StmtNoArgs == <<"c", "o", "n", "s", "o", "l", "e", "(", ")">>
StmtQuote == <<"c", "o", "n", "s", "o", "l", "e", ".", "l", "o", "g", "(", "\"", ")">>
StmtOpen == <<"c", "o", "n", "s", "o", "l", "e", ".", "l", "o", "g", "(", "1">>
StmtBlank == <<" ">>
StmtTexts ==
    {StmtOne, StmtSum, StmtMixed, StmtThree,
     StmtDivZero, StmtModZero, StmtPrint, StmtLog,
     StmtConsole, StmtNoArgs, StmtQuote, StmtOpen,
     StmtBlank}

RECURSIVE Program(_)
Program(stmts) ==
    IF stmts = <<>> THEN <<>>
    ELSE Head(stmts) \o <<";">>
         \o (IF Tail(stmts) = <<>> THEN <<>> ELSE <<" ">> \o Program(Tail(stmts)))

\* the sequences of 1..n elements of S
SeqsUpTo(S, n) == UNION {[1..m -> S] : m \in 1..n}

\* the decimal text of an integer, written digit by digit
NumDigits(n) == CHOOSE d \in 1..9 : n < 10 ^ d /\ (d = 1 \/ 10 ^ (d - 1) <= n)
Numeral(n) == [i \in 1..NumDigits(n) |-> Digits[((n \div 10 ^ (NumDigits(n) - i)) % 10) + 1]]
Decimal(z) == IF z < 0 THEN <<"-">> \o Numeral(-z) ELSE Numeral(z)

\* SpecCall: one call console.log(a1, ..., an), 1..MaxArgs arguments, each a
\* string literal, a bare integer or an expression with a non-zero divisor
StringArg(body) == [kind |-> "string", body |-> body, a |-> 0, op |-> "", b |-> 0]
IntArg(n) == [kind |-> "int", body |-> <<>>, a |-> n, op |-> "", b |-> 0]
ExprArg(a, op, b) == [kind |-> "expr", body |-> <<>>, a |-> a, op |-> op, b |-> b]
ArgChoices ==
    {StringArg(<<"a">>), StringArg(<<"s", "u", "m", ":">>), StringArg(<<"1", "+", "1">>),
     IntArg(1), IntArg(42),
     ExprArg(2, "+", 3), ExprArg(7, "/", 2), ExprArg(10, "%", 3)}

ArgText(arg) ==
    CASE arg.kind = "string" -> <<"\"">> \o arg.body \o <<"\"">>
      [] arg.kind = "int" -> Decimal(arg.a)
      [] arg.kind = "expr" -> Decimal(arg.a) \o <<arg.op>> \o Decimal(arg.b)

RECURSIVE ArgList(_)
ArgList(args) ==
    IF args = <<>> THEN <<>>
    ELSE ArgText(Head(args))
         \o (IF Tail(args) = <<>> THEN <<>> ELSE <<",", " ">> \o ArgList(Tail(args)))

Call(argText) == ConsoleLogOpen \o argText \o <<")", ";">>

\* SpecArg: one call with one argument, every text of up to MaxArgLen
\* characters of ArgAlphabet
ArgAlphabet == {"\"", " ", "1", "+", "-", "*", "/", "%", "^"}
ArgTexts == UNION {[1..m -> ArgAlphabet] : m \in 0..MaxArgLen}

\* SpecArith: console.log(a op b); with a in 0..MaxOperand and b of
\* magnitude 0..MaxOperand behind no sign, "-" or "+"
Signs == {<<>>, <<"-">>, <<"+">>}
ArithText(a, op, sign, b) == Decimal(a) \o <<op>> \o sign \o Decimal(b)

\* SpecOperands: console.log(l op r); over operand texts, numerals or not
LeftTexts ==
    {<<>>, <<"x">>, <<"1", "x">>, <<"1", " ", "2">>, <<"9", "9", "9", "9", "9", "9">>,
     <<"0">>, <<"7">>, <<"1", "2">>}
RightTexts ==
    LeftTexts \cup
    {<<"2", "+", "3">>, <<"-">>, <<"-", "3">>, <<"+", "2">>, <<"-", "x">>,
     <<"-", "9", "9", "9", "9", "9", "9">>}

(***************************************************************************)
(* main (src/main.go:264-289) from the file's text on.                     *)
(***************************************************************************)
VARIABLES
    given,    \* how input was put together (never read by the program)
    input,    \* string(data)
    arch,     \* the build's architecture
    pc,       \* where main is: lex, tokens, parse, ast, eval, done, panic
    tokens,   \* the result of Lex
    nodes,    \* the result of Parse
    k,        \* the node the running loop is at
    stdout,   \* the lines printed so far
    fault     \* the message of the panic, "" while there is none

vars == <<given, input, arch, pc, tokens, nodes, k, stdout, fault>>

Start ==
    /\ arch \in Architectures
    /\ pc = "lex"
    /\ tokens = <<>>
    /\ nodes = <<>>
    /\ k = 0
    /\ stdout = <<>>
    /\ fault = ""

Init ==
    /\ \E stmts \in SeqsUpTo(StmtTexts, MaxStmts) :
          /\ given = [form |-> "program", stmts |-> stmts]
          /\ input = Program(stmts)
    /\ Start

InitCall ==
    /\ \E args \in SeqsUpTo(ArgChoices, MaxArgs) :
          /\ given = [form |-> "call", args |-> args]
          /\ input = Call(ArgList(args))
    /\ Start

InitArg ==
    /\ \E arg \in ArgTexts :
          /\ given = [form |-> "arg", arg |-> arg]
          /\ input = Call(arg)
    /\ Start

InitArith ==
    /\ \E a \in 0..MaxOperand, b \in 0..MaxOperand, op \in OperatorChars, sign \in Signs :
          /\ given = [form |-> "arith", a |-> a, op |-> op, sign |-> sign, b |-> b]
          /\ input = Call(ArithText(a, op, sign, b))
    /\ Start

InitOperands ==
    /\ \E l \in LeftTexts, r \in RightTexts, op \in OperatorChars :
          /\ given = [form |-> "operands", left |-> l, op |-> op, right |-> r]
          /\ input = Call(l \o <<op>> \o r)
    /\ Start

\* a line of standard output
Line(kind, label, text) == [kind |-> kind, label |-> label, text |-> text]
TokensHeader == Line("header", "", <<"T", "o", "k", "e", "n", "s", ":">>)
AstHeader == Line("header", "", <<"A", "b", "s", "t", "r", "a", "c", "t", " ", "S", "y", "n", "t", "a", "x", " ", "T", "r", "e", "e", ":">>)
OutputHeader == Line("header", "", <<"O", "u", "t", "p", "u", "t", ":">>)

Panic(message) == pc' = "panic" /\ fault' = message

\* tokens := Lex(string(data))
DoLex ==
    /\ pc = "lex"
    /\ LET r == Lex(input)
       IN  IF r.fault # ""
           THEN Panic(r.fault) /\ UNCHANGED tokens
           ELSE pc' = "tokens" /\ tokens' = r.tokens /\ UNCHANGED fault
    /\ UNCHANGED <<given, input, arch, nodes, k, stdout>>

\* the token dump
PrintTokens ==
    /\ pc = "tokens"
    /\ stdout' = stdout \o <<TokensHeader>>
                  \o [i \in 1..Len(tokens) |->
                         Line("token", tokens[i].Type, tokens[i].Literal)]
    /\ pc' = "parse"
    /\ UNCHANGED <<given, input, arch, tokens, nodes, k, fault>>

\* ast := Parse(tokens), then the header of the AST dump
DoParse ==
    /\ pc = "parse"
    /\ LET r == Parse(tokens)
       IN  IF r.fault # ""
           THEN Panic(r.fault) /\ UNCHANGED <<nodes, k, stdout>>
           ELSE /\ nodes' = r.nodes
                /\ pc' = "ast"
                /\ k' = 1
                /\ stdout' = Append(stdout, AstHeader)
                /\ UNCHANGED fault
    /\ UNCHANGED <<given, input, arch, tokens>>

\* one round of the AST dump: the node's type and what it executes to
PrintNode ==
    /\ pc = "ast"
    /\ k <= Len(nodes)
    /\ LET r == Execute(arch, nodes[k])
       IN  IF r.fault # ""
           THEN Panic(r.fault) /\ UNCHANGED <<k, stdout>>
           ELSE /\ stdout' = Append(stdout, Line("ast", "*main.ConsoleLogNode", r.text))
                /\ k' = k + 1
                /\ UNCHANGED <<pc, fault>>
    /\ UNCHANGED <<given, input, arch, tokens, nodes>>

\* the header of the program output, then the call of Eval
StartEval ==
    /\ pc = "ast"
    /\ k > Len(nodes)
    /\ stdout' = Append(stdout, OutputHeader)
    /\ pc' = "eval"
    /\ k' = 1
    /\ UNCHANGED <<given, input, arch, tokens, nodes, fault>>

\* one round of Eval: fmt.Println(node.Execute())
EvalNode ==
    /\ pc = "eval"
    /\ k <= Len(nodes)
    /\ LET r == Execute(arch, nodes[k])
       IN  IF r.fault # ""
           THEN Panic(r.fault) /\ UNCHANGED <<k, stdout>>
           ELSE /\ stdout' = Append(stdout, Line("out", "", r.text))
                /\ k' = k + 1
                /\ UNCHANGED <<pc, fault>>
    /\ UNCHANGED <<given, input, arch, tokens, nodes>>

\* Eval and main return
Exit ==
    /\ pc = "eval"
    /\ k > Len(nodes)
    /\ pc' = "done"
    /\ UNCHANGED <<given, input, arch, tokens, nodes, k, stdout, fault>>

Next == DoLex \/ PrintTokens \/ DoParse \/ PrintNode \/ StartEval \/ EvalNode \/ Exit

Spec == Init /\ [][Next]_vars
SpecCall == InitCall /\ [][Next]_vars
SpecArg == InitArg /\ [][Next]_vars
SpecArith == InitArith /\ [][Next]_vars
SpecOperands == InitOperands /\ [][Next]_vars

(***************************************************************************)
(* What the properties below are stated with.                              *)
(***************************************************************************)
Terminal == pc \in {"done", "panic"}

\* Parse has returned a node sequence
Parsed == pc \in {"ast", "eval", "done"} \/ fault = DivideFault

\* the lines of the program-output section
OutLines ==
    LET sel == SelectSeq(stdout, LAMBDA l : l.kind = "out")
    IN  [i \in 1..Len(sel) |-> sel[i].text]

\* Eval(Parse(Lex(text))): the lines Eval prints, or the first panic
RECURSIVE EvalLines(_, _)
EvalLines(a, ns) ==
    IF ns = <<>> THEN [fault |-> "", lines |-> <<>>]
    ELSE LET first == Execute(a, Head(ns))
             rest == EvalLines(a, Tail(ns))
         IN  IF first.fault # "" THEN [fault |-> first.fault, lines |-> <<>>]
             ELSE [fault |-> rest.fault, lines |-> <<first.text>> \o rest.lines]

RunAlone(a, text) ==
    LET l == Lex(text)
        p == Parse(l.tokens)
    IN  IF l.fault # "" THEN [fault |-> l.fault, lines |-> <<>>]
        ELSE IF p.fault # "" THEN [fault |-> p.fault, lines |-> <<>>]
        ELSE EvalLines(a, p.nodes)

\* text without its leading and trailing white space, by positions
Trimmed(s) ==
    LET keep == {i \in 1..Len(s) : s[i] \notin {" ", "\t", "\n", "\r"}}
    IN  IF keep = {} THEN <<>>
        ELSE SubSeq(s, CHOOSE i \in keep : \A j \in keep : i <= j,
                       CHOOSE i \in keep : \A j \in keep : j <= i)

StartsWith(s, prefix) == Len(s) >= Len(prefix) /\ SubSeq(s, 1, Len(prefix)) = prefix

\* the tokens the text before the first "(" of a statement produces hold a
\* Console immediately followed by a Log
PrefixPairs(stmt) ==
    LET words == LexWords(FieldsFunc(Slice(stmt, 0, Index(stmt, "(")), {" ", "."}))
    IN  \E i \in 1..(Len(words) - 1) :
            words[i].Type = TokenConsole /\ words[i + 1].Type = TokenLog

\* a op b on integers, a >= 0 (b # 0 for / and %, b >= 0 for ^); a power is
\* no longer multiplied once it has left the int range
RECURSIVE Power(_, _)
Power(a, b) ==
    IF b = 0 THEN 1
    ELSE LET q == Power(a, b - 1) IN IF q > MaxInt THEN q ELSE a * q

Apply(a, op, b) ==
    CASE op = "+" -> a + b
      [] op = "-" -> a - b
      [] op = "*" -> a * b
      [] op = "/" -> IF b > 0 THEN a \div b ELSE -(a \div (-b))
      [] op = "%" -> IF b > 0 THEN a % b ELSE a % (-b)
      [] op = "^" -> Power(a, b)

RECURSIVE JoinSpaces(_)
JoinSpaces(texts) ==
    IF texts = <<>> THEN <<>>
    ELSE IF Len(texts) = 1 THEN texts[1]
    ELSE texts[1] \o <<" ">> \o JoinSpaces(Tail(texts))

(***************************************************************************)
(* C1.  Parse fails on every token sequence that holds a Console token not *)
(* immediately followed by a Log token, wherever the Console sits: when    *)
(* Parse has returned nodes, every Console of the tokens is followed by a  *)
(* Log.  Violated: in CONSOLE LOG INT CONSOLE INT the second Console sits  *)
(* where Parse expects an operator, and is skipped.                        *)
(***************************************************************************)
C1_LoneConsoleFails ==
    Parsed =>
        \A i \in 1..Len(tokens) :
            tokens[i].Type = TokenConsole =>
                i < Len(tokens) /\ tokens[i + 1].Type = TokenLog

(***************************************************************************)
(* C2.  Lex then Parse aborts on every program with a non-empty statement  *)
(* whose text before the first "(" gives no Console immediately followed   *)
(* by Log: when Parse has returned nodes, every non-empty statement has    *)
(* the pair.  Violated: the argument of print(2) after console.log(1) is   *)
(* merged into the first call.                                             *)
(***************************************************************************)
C2_MalformedPrefixAborts ==
    Parsed =>
        \A i \in 1..Len(given.stmts) :
            Trimmed(given.stmts[i]) # <<>> => PrefixPairs(Trimmed(given.stmts[i]))

ArgValue(arg) ==
    CASE arg.kind = "string" -> arg.body
      [] arg.kind = "int" -> Decimal(arg.a)
      [] arg.kind = "expr" -> Decimal(Apply(arg.a, arg.op, arg.b))

(***************************************************************************)
(* C3.  One console.log call over string literals, bare integers and       *)
(* single-operator expressions prints one line holding one value per       *)
(* argument, in order, joined by single spaces.  Violated: of three bare   *)
(* integers in a row none is printed.                                      *)
(***************************************************************************)
C3_OneValuePerArgument ==
    Terminal =>
        /\ pc = "done"
        /\ OutLines = <<JoinSpaces([i \in 1..Len(given.args) |-> ArgValue(given.args[i])])>>

WellPrefixed == \A i \in 1..Len(given.stmts) : StartsWith(Trimmed(given.stmts[i]), ConsoleLogOpen)

NoZeroDivisor == \A i \in 1..Len(given.stmts) : RunAlone(arch, given.stmts[i]).fault # DivideFault

\* every statement, taken alone, is one that Lex accepts
EachLexed == \A i \in 1..Len(given.stmts) : Lex(given.stmts[i]).fault = ""

(***************************************************************************)
(* C4.  A program of n statements, each starting with console.log( and     *)
(* none dividing by zero, prints exactly n lines, the k-th being the line  *)
(* of the k-th statement run alone.  Violated: a statement that starts     *)
(* with console.log( and has a lone quote as argument, or no ")", makes    *)
(* Lex panic, and nothing is printed.                                      *)
(***************************************************************************)
C4_LineForLine ==
    (Terminal /\ WellPrefixed /\ NoZeroDivisor) =>
        /\ pc = "done"
        /\ Len(OutLines) = Len(given.stmts)
        /\ \A i \in 1..Len(given.stmts) :
               RunAlone(arch, given.stmts[i]) = [fault |-> "", lines |-> <<OutLines[i]>>]

\* what does hold: the same line-for-line correspondence, for the programs
\* each of whose statements Lex accepts
LineForLineWhenLexed ==
    (Terminal /\ WellPrefixed /\ NoZeroDivisor /\ EachLexed) =>
        /\ pc = "done"
        /\ Len(OutLines) = Len(given.stmts)
        /\ \A i \in 1..Len(given.stmts) :
               RunAlone(arch, given.stmts[i]) = [fault |-> "", lines |-> <<OutLines[i]>>]

ZeroDivisors == {i \in 1..Len(given.stmts) : RunAlone(arch, given.stmts[i]).fault = DivideFault}

FirstZeroDivisor == CHOOSE i \in ZeroDivisors : \A j \in ZeroDivisors : i <= j

(***************************************************************************)
(* C5.  When the first division or modulo by zero is in statement k, main  *)
(* aborts with the output lines of statements 1..k-1, in order, in the     *)
(* program-output section and none for statement k or later.  Violated:    *)
(* the AST dump executes every node before the output section starts, so   *)
(* main panics there and no output line is ever printed.                   *)
(***************************************************************************)
C5_OutputBeforeAbort ==
    (Terminal /\ WellPrefixed /\ EachLexed /\ ZeroDivisors # {}) =>
        /\ pc = "panic"
        /\ fault = DivideFault
        /\ OutLines = [i \in 1..(FirstZeroDivisor - 1) |->
                          RunAlone(arch, given.stmts[i]).lines[1]]

DigitChars == {"0", "1", "2", "3", "4", "5", "6", "7", "8", "9"}

Unsigned(text) == IF text # <<>> /\ text[1] \in {"+", "-"} THEN Tail(text) ELSE text

IsNumeral(text) ==
    Unsigned(text) # <<>> /\ \A i \in 1..Len(Unsigned(text)) : Unsigned(text)[i] \in DigitChars

\* the integer a numeral of at most nine digits denotes
RECURSIVE Denoted(_)
Denoted(digits) ==
    IF digits = <<>> THEN 0
    ELSE 10 * Denoted(SubSeq(digits, 1, Len(digits) - 1))
         + (CHOOSE d \in 0..9 : Decimal(d) = <<digits[Len(digits)]>>)

NumeralValue(text) ==
    IF text[1] = "-" THEN -Denoted(Unsigned(text)) ELSE Denoted(Unsigned(text))

IsInt(text) == IsNumeral(text) /\ NumeralValue(text) \in MinInt..MaxInt

KindOf(op) ==
    CASE op = "+" -> "PlusNode"
      [] op = "-" -> "MinusNode"
      [] op = "*" -> "MultiplyNode"
      [] op = "/" -> "DivideNode"
      [] op = "%" -> "ModuloNode"
      [] op = "^" -> "PowerNode"

\* the operation main runs is the one the operands were given for
OperandsParsed ==
    nodes = <<ConsoleLogNode(<<BinaryNode(KindOf(given.op), IntNode(given.left),
                                           IntNode(given.right))>>)>>

ZeroIfInvalid(text) == IF IsInt(text) THEN text ELSE <<"0">>

(***************************************************************************)
(* C6.  A binary operation on an operand text that is no valid base-10     *)
(* integer takes the operand as 0, completes without panic, and prints the *)
(* operator applied with 0 in the operand's place.  Violated: 7/x divides  *)
(* by the 0 that x is taken as, and panics; 999999 is taken as the         *)
(* largest int, not as 0.                                                  *)
(***************************************************************************)
C6_InvalidOperandIsZero ==
    (Terminal /\ (~IsInt(given.left) \/ ~IsInt(given.right))) =>
        /\ pc = "done"
        /\ OperandsParsed
        /\ OutLines = <<ExecuteBinary(arch, KindOf(given.op), ZeroIfInvalid(given.left),
                                      ZeroIfInvalid(given.right)).text>>

TakenAs(text) ==
    IF ~IsNumeral(text) THEN 0
    ELSE IF NumeralValue(text) > MaxInt THEN MaxInt
    ELSE IF NumeralValue(text) < MinInt THEN MinInt
    ELSE NumeralValue(text)

(***************************************************************************)
(* C6, amended.  An operand text that is not an optional sign and decimal  *)
(* digits is taken as 0, and a numeral outside the int range as the        *)
(* nearest end of the range; Div and Mod panic when the value the right    *)
(* operand is taken as is 0, and every other operation completes and       *)
(* prints the operator applied with that value in the operand's place.     *)
(***************************************************************************)
C6_InvalidOperandTaken ==
    (Terminal /\ (~IsInt(given.left) \/ ~IsInt(given.right))) =>
        /\ OperandsParsed
        /\ IF given.op \in {"/", "%"} /\ TakenAs(given.right) = 0
           THEN pc = "panic" /\ fault = DivideFault /\ OutLines = <<>>
           ELSE /\ pc = "done"
                /\ OutLines = <<ExecuteBinary(arch, KindOf(given.op),
                                              Decimal(TakenAs(given.left)),
                                              Decimal(TakenAs(given.right))).text>>

\* x+7 has run and printed 7
C6_Witness ==
    /\ pc = "done"
    /\ given.left = <<"x">> /\ given.op = "+" /\ given.right = <<"7">>
    /\ OperandsParsed
    /\ OutLines = <<<<"7">>>>

GivenB == IF given.sign = <<"-">> THEN -given.b ELSE given.b

ArithDefined ==
    /\ given.op \in {"/", "%"} => GivenB # 0
    /\ given.op = "^" => GivenB >= 0

ArithResult == Apply(given.a, given.op, GivenB)

(***************************************************************************)
(* C7.  console.log(a op b); for an unsigned numeral a and an optionally   *)
(* signed numeral b (b # 0 for / and %, b >= 0 for ^, the result an int)   *)
(* prints the decimal text of a+b, a-b, a*b, the quotient truncated toward *)
(* zero, the remainder with the sign of a, or a to the power b.  Violated: *)
(* a power that is an int but no float64 is printed rounded.               *)
(***************************************************************************)
C7_ArithmeticLine ==
    (Terminal /\ ArithDefined /\ ArithResult \in MinInt..MaxInt) =>
        /\ pc = "done"
        /\ OutLines = <<Decimal(ArithResult)>>

(***************************************************************************)
(* C7, amended.  The same, for ^ only when the power is at most            *)
(* 2^MantissaBits (2^53 in a build), up to where float64 holds every       *)
(* integer.                                                                *)
(***************************************************************************)
C7_ArithmeticLineExact ==
    (/\ Terminal
     /\ ArithDefined
     /\ ArithResult \in MinInt..MaxInt
     /\ given.op = "^" => ArithResult <= 2 ^ MantissaBits) =>
        /\ pc = "done"
        /\ OutLines = <<Decimal(ArithResult)>>

\* 7/-2 has run and printed -3
C7_Witness ==
    /\ pc = "done"
    /\ given.a = 7 /\ given.op = "/" /\ given.sign = <<"-">> /\ given.b = 2
    /\ OutLines = <<<<"-", "3">>>>

Quoted(text) == text # <<>> /\ text[1] = "\"" /\ text[Len(text)] = "\""

OperatorPositions(text) == {i \in 1..Len(text) : text[i] \in OperatorChars}

FirstOperator(text) ==
    CHOOSE i \in OperatorPositions(text) : \A j \in OperatorPositions(text) : i <= j

TokenOf(c) ==
    [x \in OperatorChars |->
        CASE x = "+" -> "PLUS" [] x = "-" -> "MINUS" [] x = "*" -> "MULTIPLY"
          [] x = "/" -> "DIVIDE" [] x = "%" -> "MODULO" [] x = "^" -> "POWER"][c]

Lexed == pc # "lex"

(***************************************************************************)
(* C8.  For an argument that is no quoted string and holds an operator     *)
(* character, Lex emits exactly Int (the trimmed text before the first     *)
(* operator character), that character's operator token, Int (the trimmed  *)
(* text after it, later operator characters included).                     *)
(***************************************************************************)
C8_ThreeTokens ==
    (/\ Lexed
     /\ ~Quoted(Trimmed(given.arg))
     /\ OperatorPositions(given.arg) # {}) =>
        LET arg == given.arg
            at == FirstOperator(arg)
        IN  /\ fault # SliceFault
            /\ tokens = <<[Type |-> "CONSOLE", Literal |-> Console],
                          [Type |-> "LOG", Literal |-> Log],
                          [Type |-> "INT", Literal |-> Trimmed(SubSeq(arg, 1, at - 1))],
                          [Type |-> TokenOf(arg[at]), Literal |-> <<arg[at]>>],
                          [Type |-> "INT", Literal |-> Trimmed(SubSeq(arg, at + 1, Len(arg)))]>>

\* -1+1 has been lexed: an empty left literal, Minus, the right literal 1+1
C8_Witness ==
    /\ Lexed
    /\ given.arg = <<"-", "1", "+", "1">>
    /\ Len(tokens) = 5
    /\ tokens[3] = [Type |-> "INT", Literal |-> <<>>]
    /\ tokens[4].Type = "MINUS"
    /\ tokens[5] = [Type |-> "INT", Literal |-> <<"1", "+", "1">>]

(***************************************************************************)
(* C9.  For an argument whose trimmed text starts and ends with a quote,   *)
(* of one character or more, Lex does not panic and emits exactly one      *)
(* String token, the trimmed text without its first and last character.    *)
(* Violated: the argument that is one quote makes Lex slice [1:0].         *)
(***************************************************************************)
C9_QuotedIsOneString ==
    (Lexed /\ Quoted(Trimmed(given.arg))) =>
        /\ fault # SliceFault
        /\ tokens = <<[Type |-> "CONSOLE", Literal |-> Console],
                      [Type |-> "LOG", Literal |-> Log],
                      [Type |-> "STRING",
                       Literal |-> SubSeq(Trimmed(given.arg), 2, Len(Trimmed(given.arg)) - 1)]>>

(***************************************************************************)
(* C10.  On the tokens Lex returns, Parse never reads outside the          *)
(* sequence: it returns nodes or panics with Invalid syntax, never with an *)
(* index out of range, and the last token Lex returns is no Console.       *)
(***************************************************************************)
C10_ParseStaysInside ==
    /\ fault # IndexFault
    /\ (Lexed /\ fault # SliceFault /\ tokens # <<>>) =>
           tokens[Len(tokens)].Type # TokenConsole
    /\ (pc \notin {"lex", "tokens", "parse"} /\ fault # SliceFault) =>
           (Parsed \/ fault = InvalidSyntax)

\* Parse has met a Console that no Log follows, inside the sequence, and
\* panicked with Invalid syntax
C10_Witness ==
    /\ pc = "panic"
    /\ fault = InvalidSyntax
    /\ \E i \in 1..(Len(tokens) - 1) :
           /\ tokens[i].Type = TokenConsole
           /\ tokens[i + 1].Type # TokenLog
           /\ \A j \in 1..(i - 1) : tokens[j].Type # TokenConsole

=============================================================================
